---- MODULE Spec2Model ----
(***************************************************************************)
(* Version resolution and lifecycle engine of the gitbook CLI:             *)
(*   tags     - identifier rules (IsTag, IsValid, GetTag, Sort, Satisfies) *)
(*   local    - the store of installed versions (Versions, Resolve, Load,  *)
(*              Link, Remove)                                              *)
(*   registry - the remote catalog and the installer (Versions, Resolve,   *)
(*              Install, copyDir)                                          *)
(*   manager  - EnsureVersion, EnsureAndLoad, UpdateVersion                *)
(* Identifiers are strings; they are parsed character by character.        *)
(***************************************************************************)
EXTENDS Integers, Sequences, FiniteSets, TLC

\* F applied to the value of x: x is evaluated once, whatever F does with it
Apply(F(_), x) == CHOOSE r \in {F(v) : v \in {x}} : TRUE

(***************************************************************************)
(* Strings                                                                 *)
(***************************************************************************)
Digits == "0123456789"

\* bytes in ascending byte order, for Go's string comparison
Alphabet == "*+-.0123456789<=>ABCDEFGHIJKLMNOPQRSTUVWXYZabcdefghijklmnopqrstuvwxyz"

CharAt(s, i) == SubSeq(s, i, i)

RECURSIVE IndexFrom(_, _, _)
IndexFrom(s, c, i) ==
    IF i > Len(s) THEN 0
    ELSE IF CharAt(s, i) = c THEN i
    ELSE IndexFrom(s, c, i + 1)

\* position of the first occurrence of the one-character string c, 0 if none
IndexOf(s, c) == IndexFrom(s, c, 1)

Contains(s, c) == IndexOf(s, c) > 0

RECURSIVE AllInFrom(_, _, _)
AllInFrom(s, chars, i) ==
    IF i > Len(s) THEN TRUE
    ELSE Contains(chars, CharAt(s, i)) /\ AllInFrom(s, chars, i + 1)

\* every character of s is one of chars
AllIn(s, chars) == AllInFrom(s, chars, 1)

IsNumeric(s) == Len(s) > 0 /\ AllIn(s, Digits)

RECURSIVE AtoiTo(_, _)
\* the number written by the first n digits of s
AtoiTo(s, n) ==
    IF n = 0 THEN 0
    ELSE 10 * AtoiTo(s, n - 1) + (IndexOf(Digits, CharAt(s, n)) - 1)

Atoi(s) == AtoiTo(s, Len(s))

RECURSIVE SplitFrom(_, _, _, _)
\* the pieces of s from position i on; start is where the current piece began
SplitFrom(s, sep, start, i) ==
    IF i > Len(s) THEN <<SubSeq(s, start, Len(s))>>
    ELSE IF CharAt(s, i) = sep
         THEN <<SubSeq(s, start, i - 1)>> \o SplitFrom(s, sep, i + 1, i + 1)
         ELSE SplitFrom(s, sep, start, i + 1)

\* strings.Split(s, sep) for a one-character separator
Split(s, sep) == SplitFrom(s, sep, 1, 1)

RECURSIVE StrCmpFrom(_, _, _)
StrCmpFrom(a, b, i) ==
    IF i > Len(a) /\ i > Len(b) THEN 0
    ELSE IF i > Len(a) THEN -1
    ELSE IF i > Len(b) THEN 1
    ELSE IF IndexOf(Alphabet, CharAt(a, i)) < IndexOf(Alphabet, CharAt(b, i)) THEN -1
    ELSE IF IndexOf(Alphabet, CharAt(a, i)) > IndexOf(Alphabet, CharAt(b, i)) THEN 1
    ELSE StrCmpFrom(a, b, i + 1)

\* byte-wise comparison of two strings: -1, 0, 1
StrCmp(a, b) == StrCmpFrom(a, b, 1)

(***************************************************************************)
(* The semantic-version library, as the tags package uses it               *)
(***************************************************************************)
NoVersion == [err |-> TRUE, major |-> 0, minor |-> 0, patch |-> 0, pre |-> "", meta |-> ""]

PreChars == "-.0123456789ABCDEFGHIJKLMNOPQRSTUVWXYZabcdefghijklmnopqrstuvwxyz"

\* the parse of [v]MAJOR[.MINOR[.PATCH]][-PRERELEASE][+METADATA]
ParseVersion(s) ==
    LET body  == IF Len(s) > 0 /\ CharAt(s, 1) = "v" THEN SubSeq(s, 2, Len(s)) ELSE s
        plus  == IndexOf(body, "+")
        nometa == IF plus = 0 THEN body ELSE SubSeq(body, 1, plus - 1)
        meta  == IF plus = 0 THEN "" ELSE SubSeq(body, plus + 1, Len(body))
        dash  == IndexOf(nometa, "-")
        core  == IF dash = 0 THEN nometa ELSE SubSeq(nometa, 1, dash - 1)
        pre   == IF dash = 0 THEN "" ELSE SubSeq(nometa, dash + 1, Len(nometa))
        parts == Split(core, ".")
        ok    == /\ Len(parts) <= 3
                 /\ \A i \in 1..Len(parts) : IsNumeric(parts[i])
                 /\ (dash # 0 => Len(pre) > 0 /\ AllIn(pre, PreChars))
                 /\ (plus # 0 => Len(meta) > 0 /\ AllIn(meta, PreChars))
    IN  IF ~ok THEN NoVersion
        ELSE [err   |-> FALSE,
              major |-> Atoi(parts[1]),
              minor |-> IF Len(parts) >= 2 THEN Atoi(parts[2]) ELSE 0,
              patch |-> IF Len(parts) >= 3 THEN Atoi(parts[3]) ELSE 0,
              pre   |-> pre,
              meta  |-> meta]

\* the strings that occur as identifiers, versions and conditions
Identifiers ==
    {"", "*", "latest", "pre", "beta", "alpha", "dev", ">1.x.x",
     "0.9.0", "1.0.0", "2.0.0", "2.5.0", "3.0.0", "3.0.0-beta.1",
                "2.0.0-beta.1"}

\* the parses of the identifiers, computed once
ParsedVersions == [s \in Identifiers |-> ParseVersion(s)]

\* semver.NewVersion
NewVersion(s) == ParsedVersions[s]

IntCmp(a, b) == IF a < b THEN -1 ELSE IF a > b THEN 1 ELSE 0

\* one dot-separated prerelease identifier against another
ComparePrePart(s, o) ==
    IF s = o THEN 0
    ELSE IF s = "" THEN -1
    ELSE IF o = "" THEN 1
    ELSE IF IsNumeric(s) /\ IsNumeric(o) THEN IntCmp(Atoi(s), Atoi(o))
    ELSE IF IsNumeric(s) THEN -1
    ELSE IF IsNumeric(o) THEN 1
    ELSE StrCmp(s, o)

RECURSIVE ComparePreParts(_, _, _)
ComparePreParts(sp, op, i) ==
    IF i > Len(sp) /\ i > Len(op) THEN 0
    ELSE LET d == ComparePrePart(IF i <= Len(sp) THEN sp[i] ELSE "",
                                 IF i <= Len(op) THEN op[i] ELSE "")
         IN  IF d # 0 THEN d ELSE ComparePreParts(sp, op, i + 1)

\* a release is greater than any of its prereleases
ComparePrerelease(v, o) ==
    IF v = "" /\ o = "" THEN 0
    ELSE IF v = "" THEN 1
    ELSE IF o = "" THEN -1
    ELSE ComparePreParts(Split(v, "."), Split(o, "."), 1)

\* (*Version).Compare: -1, 0, 1; build metadata is ignored
Compare(v, o) ==
    IF v.major # o.major THEN IntCmp(v.major, o.major)
    ELSE IF v.minor # o.minor THEN IntCmp(v.minor, o.minor)
    ELSE IF v.patch # o.patch THEN IntCmp(v.patch, o.patch)
    ELSE ComparePrerelease(v.pre, o.pre)

LessThan(v, o) == Compare(v, o) < 0

NoConstraint == [err |-> TRUE, op |-> "", con |-> NoVersion,
                 dirty |-> FALSE, minorDirty |-> FALSE, patchDirty |-> FALSE]

IsX(s) == s = "x" \/ s = "X" \/ s = "*"

ConstraintOps == {"", "=", ">", ">=", "<"}

\* the comparison operator a constraint string starts with
OpOf(c) ==
    IF Len(c) >= 2 /\ SubSeq(c, 1, 2) = ">=" THEN ">="
    ELSE IF Len(c) >= 1 /\ CharAt(c, 1) \in {"=", ">", "<"} THEN CharAt(c, 1)
    ELSE ""

\* the parse of a single comparator: OP MAJOR[.MINOR[.PATCH]][-PRE]
\* where a component may be the wildcard x, X or *
ParseConstraint(c) ==
    LET op    == OpOf(c)
        rest  == SubSeq(c, Len(op) + 1, Len(c))
        dash  == IndexOf(rest, "-")
        core  == IF dash = 0 THEN rest ELSE SubSeq(rest, 1, dash - 1)
        pre   == IF dash = 0 THEN "" ELSE SubSeq(rest, dash + 1, Len(rest))
        parts == Split(core, ".")
        ok    == /\ Len(parts) <= 3
                 /\ \A i \in 1..Len(parts) : IsNumeric(parts[i]) \/ IsX(parts[i])
                 /\ (dash # 0 => Len(pre) > 0 /\ AllIn(pre, PreChars))
        majorX == IsX(parts[1])
        minorX == Len(parts) < 2 \/ IsX(parts[2])
        patchX == Len(parts) < 3 \/ IsX(parts[3])
        num(i) == IF Len(parts) >= i /\ IsNumeric(parts[i]) THEN Atoi(parts[i]) ELSE 0
    IN  IF ~ok THEN NoConstraint
        ELSE [err |-> FALSE,
              op  |-> op,
              con |-> [err   |-> FALSE,
                       major |-> IF majorX THEN 0 ELSE num(1),
                       minor |-> IF majorX \/ minorX THEN 0 ELSE num(2),
                       patch |-> IF majorX \/ minorX \/ patchX THEN 0 ELSE num(3),
                       pre   |-> pre,
                       meta  |-> ""],
              dirty      |-> majorX \/ minorX \/ patchX,
              minorDirty |-> ~majorX /\ minorX,
              patchDirty |-> ~majorX /\ ~minorX /\ patchX]

\* the parses of the identifiers as constraints, computed once
ParsedConstraints == [c \in Identifiers |-> ParseConstraint(c)]

\* semver.NewConstraint
NewConstraint(c) == ParsedConstraints[c]

ConstraintTilde(v, c) ==
    IF LessThan(v, c.con) THEN FALSE
    ELSE IF c.con.major = 0 /\ c.con.minor = 0 /\ c.con.patch = 0
            /\ ~c.minorDirty /\ ~c.patchDirty THEN TRUE
    ELSE IF v.major # c.con.major THEN FALSE
    ELSE IF v.minor # c.con.minor /\ ~c.minorDirty THEN FALSE
    ELSE TRUE

ConstraintGreaterThan(v, c) ==
    IF ~c.dirty THEN Compare(v, c.con) = 1
    ELSE IF v.major > c.con.major THEN TRUE
    ELSE IF v.major < c.con.major THEN FALSE
    ELSE IF c.minorDirty THEN FALSE
    ELSE IF c.patchDirty THEN v.minor > c.con.minor
    ELSE Compare(v, c.con) = 1

\* (*Constraints).Check: a prerelease version never matches a constraint
\* that names no prerelease
Check(c, v) ==
    IF v.pre # "" /\ c.con.pre = "" THEN FALSE
    ELSE CASE c.op \in {"", "="} ->
                IF c.dirty THEN ConstraintTilde(v, c) ELSE Compare(v, c.con) = 0
           [] c.op = ">"  -> ConstraintGreaterThan(v, c)
           [] c.op = ">=" -> Compare(v, c.con) >= 0
           [] c.op = "<"  -> Compare(v, c.con) < 0

(***************************************************************************)
(* package tags                                                            *)
(***************************************************************************)
ALLOWED_TAGS == <<"latest", "pre", "beta", "alpha">>

GITBOOK_VERSION == ">1.x.x"

IsTag(version) == \E i \in 1..Len(ALLOWED_TAGS) : version = ALLOWED_TAGS[i]

IsValid(version, gitbookVersionConstraint) ==
    IF IsTag(version) THEN TRUE
    ELSE LET v == NewVersion(version)
             constraint == NewConstraint(gitbookVersionConstraint)
         IN  IF v.err THEN FALSE
             ELSE IF constraint.err THEN FALSE
             ELSE Check(constraint, v)

RECURSIVE FirstTagPrefix(_, _)
\* the first allowed tag, from position i on, that prefixes the prerelease
FirstTagPrefix(prerelease, i) ==
    IF i > Len(ALLOWED_TAGS) THEN "latest"
    ELSE LET tag == ALLOWED_TAGS[i]
         IN  IF Len(prerelease) >= Len(tag) /\ SubSeq(prerelease, 1, Len(tag)) = tag
             THEN tag
             ELSE FirstTagPrefix(prerelease, i + 1)

GetTag(version) ==
    IF IsTag(version) THEN version
    ELSE LET v == NewVersion(version)
         IN  IF v.err THEN "latest"
             ELSE IF v.pre # "" THEN FirstTagPrefix(v.pre, 1)
             ELSE "latest"

\* zero-based position in ALLOWED_TAGS, -1 when absent
getTagIndex(tag) ==
    IF IsTag(tag)
    THEN (CHOOSE i \in 1..Len(ALLOWED_TAGS) : ALLOWED_TAGS[i] = tag) - 1
    ELSE -1

\* a Sort that ranks a version before a tag
SortVersionBeforeTag(a, b) ==
    LET aIsTag == IsTag(a)
        bIsTag == IsTag(b)
    IN  IF aIsTag /\ bIsTag
        THEN LET aIndex == getTagIndex(a)
                 bIndex == getTagIndex(b)
             IN  IF aIndex > bIndex THEN -1
                 ELSE IF bIndex > aIndex THEN 1
                 ELSE 0
        ELSE IF aIsTag THEN 1
        ELSE IF bIsTag THEN -1
        ELSE LET va == NewVersion(a)
                 vb == NewVersion(b)
             IN  IF va.err \/ vb.err
                 THEN IF va.err /\ vb.err THEN 0
                      ELSE IF va.err THEN -1
                      ELSE 1
                 ELSE IF LessThan(va, vb) THEN 1
                 ELSE IF LessThan(vb, va) THEN -1
                 ELSE 0

\* a Sort that returns what its comment says: -1 if a < b, 1 if a > b
SortAsDocumented(a, b) ==
    LET aIsTag == IsTag(a)
        bIsTag == IsTag(b)
    IN  IF aIsTag /\ bIsTag
        THEN LET aIndex == getTagIndex(a)
                 bIndex == getTagIndex(b)
             IN  IF aIndex > bIndex THEN -1
                 ELSE IF bIndex > aIndex THEN 1
                 ELSE 0
        ELSE IF aIsTag THEN -1
        ELSE IF bIsTag THEN 1
        ELSE LET va == NewVersion(a)
                 vb == NewVersion(b)
             IN  IF va.err \/ vb.err
                 THEN IF va.err /\ vb.err THEN 0
                      ELSE IF va.err THEN -1
                      ELSE 1
                 ELSE IF LessThan(va, vb) THEN -1
                 ELSE IF LessThan(vb, va) THEN 1
                 ELSE 0

Sort(a, b) ==
    LET aIsTag == IsTag(a)
        bIsTag == IsTag(b)
    IN  IF aIsTag /\ bIsTag
        THEN LET aIndex == getTagIndex(a)
                 bIndex == getTagIndex(b)
             IN  IF aIndex > bIndex THEN -1
                 ELSE IF bIndex > aIndex THEN 1
                 ELSE 0
        ELSE IF aIsTag THEN -1
        ELSE IF bIsTag THEN 1
        ELSE LET va == NewVersion(a)
                 vb == NewVersion(b)
             IN  IF va.err \/ vb.err
                 THEN IF va.err /\ vb.err THEN 0
                      ELSE IF va.err THEN -1
                      ELSE 1
                 ELSE IF LessThan(va, vb) THEN 1
                 ELSE IF LessThan(vb, va) THEN -1
                 ELSE 0

\* a Satisfies that matches the release tag whatever acceptTagCondition is
SatisfiesAnyTagCondition(version, condition, acceptTagCondition) ==
    IF IsTag(version) THEN condition = "*" \/ version = condition
    ELSE IF GetTag(version) = condition THEN TRUE
    ELSE LET v == NewVersion(version)
             constraint == NewConstraint(condition)
         IN  IF v.err THEN FALSE
             ELSE IF constraint.err THEN FALSE
             ELSE Check(constraint, v)

Satisfies(version, condition, acceptTagCondition) ==
    IF IsTag(version) THEN condition = "*" \/ version = condition
    ELSE IF acceptTagCondition /\ GetTag(version) = condition THEN TRUE
    ELSE LET v == NewVersion(version)
             constraint == NewConstraint(condition)
         IN  IF v.err THEN FALSE
             ELSE IF constraint.err THEN FALSE
             ELSE Check(constraint, v)

(***************************************************************************)
(* The file system: the store root, alias targets, the scratch directory   *)
(***************************************************************************)
\* number of files of an installed artifact, in the order filepath.Walk
\* visits them; NumFiles is a bound of the model
NumFiles == 3

\* the position of package.json among the artifact's files
ManifestFile == 2

ArtifactFiles == 1..NumFiles

VERSIONS_ROOT == "/gb/versions"

\* the names an entry of the store root can have
Names == {"2.0.0", "3.0.0", "latest"}

\* the directories the alias command is pointed at, and their package.json
Folders == {"/w/gitbook", "/w/gone"}

Cwd == "/w"

NoManifest == [ok |-> FALSE, name |-> "", version |-> ""]

NoEntry == [kind |-> "none", files |-> {}, ver |-> "", target |-> ""]

DirEntry(files, ver) == [kind |-> "dir", files |-> files, ver |-> ver, target |-> ""]

LinkEntry(target) == [kind |-> "link", files |-> {}, ver |-> "", target |-> target]

\* a file system st maps the entry names of the store root, and the folders
\* outside it, to what is there
Paths == Names \cup Folders

\* the file system before the first command: an empty store root, a gitbook
\* checkout at /w/gitbook, nothing at /w/gone
InitialFiles ==
    [p \in Paths |-> IF p = "/w/gitbook" THEN DirEntry(ArtifactFiles, "2.5.0") ELSE NoEntry]

FolderExists(st, f) == st[f].kind = "dir"

FolderManifest(st, f) ==
    IF st[f].kind = "dir" /\ ManifestFile \in st[f].files
    THEN [ok |-> TRUE, name |-> "gitbook", version |-> st[f].ver]
    ELSE NoManifest

\* filepath.Join(dir, name)
Join(dir, name) == dir \o "/" \o name

\* filepath.Abs(folder)
Abs(folder) == IF Len(folder) > 0 /\ CharAt(folder, 1) = "/" THEN folder ELSE Join(Cwd, folder)

VARIABLES
    store,      \* the file system: store entry or folder -> directory, symlink or nothing
    tmp,        \* the scratch directory of the running Install
    registry,   \* what the package registry publishes
    stack,      \* the call stack of the running command
    pc,         \* the position of the topmost call
    version,    \* EnsureVersion: its version argument
    iv,         \* Install: its locals
    uv,         \* UpdateVersion: its locals
    ret,        \* the value the last call returned
    cmd,        \* the running command and its arguments
    calls,      \* how often the running command called Install, Resolve, Remove
    store0,     \* the file system when the running command started
    prev        \* the command before the running one, when that was Link

vars == <<store, tmp, registry, stack, pc, version, iv, uv, ret, cmd, calls, store0, prev>>

\* os.ReadFile(<entry>/package.json) followed by json.Unmarshal, in store st
ReadManifest(st, name) ==
    LET e == st[name]
    IN  CASE e.kind = "dir"  -> IF ManifestFile \in e.files
                                THEN [ok |-> TRUE, name |-> "gitbook", version |-> e.ver]
                                ELSE NoManifest
          [] e.kind = "link" -> FolderManifest(st, e.target)
          [] OTHER           -> NoManifest

(***************************************************************************)
(* package local                                                           *)
(***************************************************************************)
NoInfo == [Name |-> "", Version |-> "", Path |-> "", Link |-> "", Tag |-> ""]

RECURSIVE SortNames(_)
\* the names of a set, sorted by file name
SortNames(S) ==
    IF S = {} THEN <<>>
    ELSE LET m == CHOOSE n \in S : \A o \in S : StrCmp(n, o) <= 0
         IN  <<m>> \o SortNames(S \ {m})

\* all entry names in directory order, computed once
NamesInOrder == SortNames(Names)

\* os.ReadDir(VERSIONS_ROOT): the names of the entries of st, sorted by file name
ReadDir(st) == SelectSeq(NamesInOrder, LAMBDA n : st[n].kind # "none")

Swap(s, i, j) == [s EXCEPT ![i] = s[j], ![j] = s[i]]

RECURSIVE SortInner(_, _, _)
\* the inner loop of "Sort by version", from j on, for a fixed i
SortInner(versions, i, j) ==
    Apply(LAMBDA vs :
            IF j > Len(vs) THEN vs
            ELSE IF Sort(vs[i].Version, vs[j].Version) < 0
                 THEN SortInner(Swap(vs, i, j), i, j + 1)
                 ELSE SortInner(vs, i, j + 1),
          versions)

RECURSIVE SortOuter(_, _)
\* the outer loop of "Sort by version", from i on
SortOuter(versions, i) ==
    Apply(LAMBDA vs :
            IF i > Len(vs) - 1 THEN vs
            ELSE SortOuter(SortInner(vs, i, i + 1), i + 1),
          versions)

\* the VersionInfo of one directory entry; NoInfo when the loop skips it
ScanEntry(st, tag) ==
    Apply(LAMBDA manifest :
            IF ~IsValid(tag, GITBOOK_VERSION) THEN NoInfo
            ELSE IF ~manifest.ok THEN NoInfo
            ELSE IF manifest.name # "gitbook" THEN NoInfo
            ELSE [Name    |-> tag,
                  Version |-> manifest.version,
                  Path    |-> Join(VERSIONS_ROOT, tag),
                  Link    |-> st[tag].target,
                  Tag     |-> GetTag(manifest.version)],
          ReadManifest(st, tag))

\* local.Versions() on store st
Versions(st) ==
    Apply(LAMBDA entries :
            SortOuter(SelectSeq([k \in 1..Len(entries) |-> ScanEntry(st, entries[k])],
                                LAMBDA info : info # NoInfo), 1),
          ReadDir(st))

VersionRoot(v) == Join(VERSIONS_ROOT, v)

\* a Resolve that takes the first installed version, whatever the condition
FirstInstalled(versions, condition, k) ==
    IF k > Len(versions) THEN 0 ELSE k

RECURSIVE FirstSatisfying(_, _, _)
\* the loop of local.Resolve, from entry k on: the first entry whose name
\* satisfies the condition, 0 when there is none
FirstSatisfying(versions, condition, k) ==
    IF k > Len(versions) THEN 0
    ELSE IF Satisfies(versions[k].Name, condition, TRUE) THEN k
    ELSE FirstSatisfying(versions, condition, k + 1)

\* a Resolve whose error does not name the condition
ResolveUnnamed(st, condition) ==
    Apply(LAMBDA versions :
            Apply(LAMBDA k :
                    IF k = 0 THEN [err |-> "no version match", info |-> NoInfo]
                    ELSE [err |-> "", info |-> versions[k]],
                  FirstSatisfying(versions, condition, 1)),
          Versions(st))

\* local.Resolve(condition) on store st
Resolve(st, condition) ==
    Apply(LAMBDA versions :
            Apply(LAMBDA k :
                    IF k = 0 THEN [err |-> "no version match: " \o condition, info |-> NoInfo]
                    ELSE [err |-> "", info |-> versions[k]],
                  FirstSatisfying(versions, condition, 1)),
          Versions(st))

\* the entry name a path under the store root refers to
BaseName(path) == SubSeq(path, Len(VERSIONS_ROOT) + 2, Len(path))

\* os.Stat(path) succeeds: the path exists, following a symlink
StatOk(st, path) ==
    LET n == BaseName(path)
    IN  /\ n \in Names
        /\ \/ st[n].kind = "dir"
           \/ st[n].kind = "link" /\ FolderExists(st, st[n].target)

\* a Load that reports a missing path the way Resolve reports no match
LoadReportingNoMatch(st, resolved) ==
    IF ~StatOk(st, resolved.Path)
    THEN [err |-> "no version match: " \o resolved.Name, path |-> ""]
    ELSE [err |-> "", path |-> resolved.Path]

\* local.Load(resolved) for a *VersionInfo: the os.Stat of its path
Load(st, resolved) ==
    IF ~StatOk(st, resolved.Path)
    THEN [err  |-> "GitBook version " \o resolved.Tag \o " is corrupted: stat "
                       \o resolved.Path \o ": no such file or directory",
          path |-> ""]
    ELSE [err |-> "", path |-> resolved.Path]

\* a Remove that deletes what a symlink points at, too
RemoveFollowingLink(st, v) ==
    IF v = "" THEN [err |-> "no version specified", store |-> st]
    ELSE IF v \notin Names \/ st[v].kind = "none"
         THEN [err |-> "not installed", store |-> st]
    ELSE IF st[v].kind = "link"
         THEN [err |-> "", store |-> [st EXCEPT ![v] = NoEntry, ![st[v].target] = NoEntry]]
    ELSE [err |-> "", store |-> [st EXCEPT ![v] = NoEntry]]

\* local.Remove(version): the error and the file system it leaves
Remove(st, v) ==
    IF v = "" THEN [err |-> "no version specified", store |-> st]
    ELSE IF v \notin Names \/ st[v].kind = "none"
         THEN [err |-> "not installed", store |-> st]
    ELSE [err |-> "", store |-> [st EXCEPT ![v] = NoEntry]]

\* os.Remove(path): unlinks a symlink or removes an empty directory
OsRemoveOk(e) == e.kind = "link" \/ (e.kind = "dir" /\ e.files = {})

\* local.Link(name, folder): the error and the store it leaves
Link(st, name, folder) ==
    IF name = "" THEN [err |-> "require a name", store |-> st]
    ELSE IF folder = "" THEN [err |-> "require a folder", store |-> st]
    ELSE LET absFolder == Abs(folder)
         IN  IF st[name].kind # "none" /\ ~OsRemoveOk(st[name])
             THEN [err |-> "remove failed", store |-> st]
             ELSE [err |-> "", store |-> [st EXCEPT ![name] = LinkEntry(absFolder)]]

(***************************************************************************)
(* package registry: the remote catalog                                    *)
(***************************************************************************)
\* what a registry can publish: the version list and the dist-tags
RawCatalogs ==
    { [versions |-> <<"1.0.0", "2.0.0", "3.0.0">>,
       tags     |-> ("latest" :> "3.0.0") @@ ("pre" :> "3.0.0") @@ ("beta" :> "3.0.0-beta.1")],
      [versions |-> <<"2.0.0", "3.0.0", "3.0.0-beta.1">>,
       tags     |-> ("latest" :> "2.0.0") @@ ("beta" :> "3.0.0-beta.1")],
      [versions |-> <<"0.9.0", "1.0.0">>,
       tags     |-> ("latest" :> "1.0.0")] }

\* how running "npm view gitbook versions dist-tags --json" can end
NpmOutcomes == {"absent", "exit1", "badjson", "badformat", "ok"}

\* how the GET of the registry document can end
HttpOutcomes == {"neterr", "badjson", "ok"}

NoCatalog == [versions |-> <<>>, tags |-> <<>>]

RECURSIVE SortVersionsInner(_, _, _)
\* the inner loop of "Sort versions", from j on, for a fixed i
SortVersionsInner(validVersions, i, j) ==
    Apply(LAMBDA vs :
            IF j > Len(vs) THEN vs
            ELSE IF Sort(vs[i], vs[j]) < 0
                 THEN SortVersionsInner(Swap(vs, i, j), i, j + 1)
                 ELSE SortVersionsInner(vs, i, j + 1),
          validVersions)

RECURSIVE SortVersions(_, _)
\* the outer loop of "Sort versions", from i on
SortVersions(validVersions, i) ==
    Apply(LAMBDA vs :
            IF i > Len(vs) - 1 THEN vs
            ELSE SortVersions(SortVersionsInner(vs, i, i + 1), i + 1),
          validVersions)

\* a dist-tags map taken over unfiltered
AllTags(distTags) == distTags

\* the entries of a dist-tags map whose version is valid
ValidTags(distTags) ==
    LET keep == {t \in DOMAIN distTags : IsValid(distTags[t], GITBOOK_VERSION)}
    IN  [t \in keep |-> distTags[t]]

\* filtering, sorting and the emptiness check both tiers end with
BuildCatalog(rawVersions, distTags) ==
    Apply(LAMBDA validVersions :
            IF Len(validVersions) = 0
            THEN [err |-> "no valid version", cat |-> NoCatalog]
            ELSE [err  |-> "",
                  cat  |-> [versions |-> SortVersions(validVersions, 1),
                            tags     |-> ValidTags(distTags)]],
          SelectSeq(rawVersions, LAMBDA v : IsValid(v, GITBOOK_VERSION)))

fetchFromNPM(outcome, raw) ==
    CASE outcome \in {"absent", "exit1"} -> [err |-> "npm failed", cat |-> NoCatalog]
      [] outcome = "badjson"   -> [err |-> "npm json", cat |-> NoCatalog]
      [] outcome = "badformat" -> [err |-> "invalid npm response format", cat |-> NoCatalog]
      [] OTHER                 -> BuildCatalog(raw.versions, raw.tags)

\* order is the order in which the range over the versions map yields its keys
fetchFromHTTP(outcome, raw, order) ==
    CASE outcome = "neterr"  -> [err |-> "http failed", cat |-> NoCatalog]
      [] outcome = "badjson" -> [err |-> "http json", cat |-> NoCatalog]
      [] OTHER               -> BuildCatalog(order, raw.tags)

\* the orders in which a map with these keys can be ranged over
MapOrders(keys) ==
    {o \in [1..Len(keys) -> 1..Len(keys)] : \A i, j \in 1..Len(keys) : i # j => o[i] # o[j]}

Reorder(keys, o) == [i \in 1..Len(keys) |-> keys[o[i]]]

\* what a tier returned, with the tiers that were called to get it
Tried(result, tiers) == [err |-> result.err, cat |-> result.cat, tried |-> tiers]

\* a Versions() that falls back only when the npm command itself failed
RegistryVersionsOwnErrorOnly(npmOutcome, httpOutcome, order, raw) ==
    Apply(LAMBDA result :
            IF result.err # "" /\ npmOutcome # "ok"
            THEN Tried(fetchFromHTTP(httpOutcome, raw, Reorder(raw.versions, order)),
                       <<"npm", "http">>)
            ELSE Tried(result, <<"npm">>),
          fetchFromNPM(npmOutcome, raw))

\* a Versions() that reports the npm error when the fallback fails too
RegistryVersionsPrimaryError(npmOutcome, httpOutcome, order, raw) ==
    Apply(LAMBDA result :
            IF result.err # ""
            THEN Apply(LAMBDA fallback :
                         IF fallback.err # ""
                         THEN Tried(result, <<"npm", "http">>)
                         ELSE Tried(fallback, <<"npm", "http">>),
                       fetchFromHTTP(httpOutcome, raw, Reorder(raw.versions, order)))
            ELSE Tried(result, <<"npm">>),
          fetchFromNPM(npmOutcome, raw))

\* registry.Versions() for one way the two tiers can behave
RegistryVersions(npmOutcome, httpOutcome, order, raw) ==
    Apply(LAMBDA result :
            IF result.err # ""
            THEN Tried(fetchFromHTTP(httpOutcome, raw, Reorder(raw.versions, order)),
                       <<"npm", "http">>)
            ELSE Tried(result, <<"npm">>),
          fetchFromNPM(npmOutcome, raw))

\* every result registry.Versions() can have, for each registry content
QueryResults ==
    [raw \in RawCatalogs |->
        { RegistryVersions(n, h, o, raw) :
            n \in NpmOutcomes, h \in HttpOutcomes, o \in MapOrders(raw.versions) }]

RECURSIVE FirstMatching(_, _, _)
FirstMatching(versions, condition, k) ==
    IF k > Len(versions) THEN 0
    ELSE IF Satisfies(versions[k], condition, FALSE) THEN k
    ELSE FirstMatching(versions, condition, k + 1)

\* registry.Resolve(version), given the result of its Versions() call
RegistryResolve(v, available) ==
    IF available.err # "" THEN [err |-> available.err, version |-> ""]
    ELSE LET wanted == IF v \in DOMAIN available.cat.tags THEN available.cat.tags[v] ELSE v
         IN  Apply(LAMBDA k :
                     IF k = 0 THEN [err |-> "invalid version or tag", version |-> ""]
                     ELSE [err |-> "", version |-> available.cat.versions[k]],
                   FirstMatching(available.cat.versions, wanted, 1))

(***************************************************************************)
(* Calls and returns of the running command                                *)
(***************************************************************************)
\* the version requests used on the command line and in book.json
Requests == {"*", "latest", "pre", "2.0.0", "3.0.0"}

\* the tags the update command is given
UpdateTags == {"", "latest", "pre", "alpha"}

\* the book directories, and what reading their book.json gives
BookRoots == {"/books/none", "/books/broken", "/books/plain", "/books/pinned"}

ReadBookJson(bookRoot) ==
    CASE bookRoot = "/books/none"   -> [readable |-> FALSE, json |-> FALSE, gitbook |-> ""]
      [] bookRoot = "/books/broken" -> [readable |-> TRUE, json |-> FALSE, gitbook |-> ""]
      [] bookRoot = "/books/plain"  -> [readable |-> TRUE, json |-> TRUE, gitbook |-> ""]
      [] OTHER                      -> [readable |-> TRUE, json |-> TRUE, gitbook |-> "3.0.0"]

NoIv == [version |-> "", resolved |-> "", actual |-> "", idx |-> 0,
         outcome |-> ""]

NoUv == [tag |-> "", hasCurrent |-> FALSE, currentV |-> NoInfo, remoteVersion |-> "",
         removeErr |-> ""]

NoRet == [fn |-> "", err |-> "", val |-> "", cmp |-> 0, ok |-> FALSE, info |-> NoInfo, list |-> <<>>,
          npm |-> "", http |-> "", tried |-> <<>>, cat |-> NoCatalog]

\* no Link call came right before
NoPrev == [fn |-> "", arg |-> "", arg2 |-> "", err |-> ""]

NoCmd == [fn |-> "", arg |-> "", arg2 |-> "", install |-> FALSE]

\* install: calls of Install; installed: those that returned a version;
\* resolve: calls of local.Resolve; remove: calls of local.Remove
NoCalls == [install |-> 0, installed |-> 0, resolve |-> 0, remove |-> 0]

Frame(fn, install, bookRoot) == [fn |-> fn, install |-> install, bookRoot |-> bookRoot]

Top == stack[Len(stack)]

\* where a caller continues when its callee returns
Continuation(caller, callee) ==
    CASE caller = "EnsureVersion" /\ callee = "Install"       -> "ev_installed"
      [] caller = "EnsureVersion" /\ callee = "EnsureVersion" -> "ev_retried"
      [] caller = "EnsureAndLoad"                             -> "eal_load"
      [] OTHER                                                -> "uv_installed"

\* the topmost call returns r
Return(r) ==
    /\ ret' = r
    /\ stack' = SubSeq(stack, 1, Len(stack) - 1)
    /\ pc' = IF Len(stack) = 1 THEN "done"
             ELSE Continuation(stack[Len(stack) - 1].fn, r.fn)

\* the topmost call calls registry.Install(v, false)
CallInstall(v) ==
    /\ stack' = Append(stack, Frame("Install", FALSE, ""))
    /\ pc' = "in_resolve"
    /\ iv' = [NoIv EXCEPT !.version = v]
    /\ calls' = [calls EXCEPT !.install = @ + 1]

(***************************************************************************)
(* package registry: Install                                               *)
(***************************************************************************)
\* how "npm install --prefix tmpDir gitbook@version" can leave the scratch
\* directory
InstallOutcomes == {"fail", "unreadable", "malformed", "wrongpkg", "disallowed", "ok"}

\* the package.json npm left under tmpDir/node_modules/gitbook
ScratchManifest(outcome, resolvedVersion) ==
    CASE outcome \in {"unreadable", "malformed"} -> NoManifest
      [] outcome = "wrongpkg"   -> [ok |-> TRUE, name |-> "gitbook-cli", version |-> resolvedVersion]
      [] outcome = "disallowed" -> [ok |-> TRUE, name |-> "gitbook", version |-> "1.0.0"]
      [] OTHER                  -> [ok |-> TRUE, name |-> "gitbook", version |-> resolvedVersion]

\* an Install whose scratch directory is removed on success only
InstallReturnKeepOnError(err, val) ==
    /\ tmp' = IF err = "" THEN "none" ELSE tmp
    /\ Return([NoRet EXCEPT !.fn = "Install", !.err = err, !.val = val])

\* Install returns: the deferred os.RemoveAll(tmpDir) runs, whatever the path
InstallReturn(err, val) ==
    /\ tmp' = "none"
    /\ Return([NoRet EXCEPT !.fn = "Install", !.err = err, !.val = val])

\* the install command
CmdInstall(v) ==
    /\ pc = "idle"
    /\ CallInstall(v)
    /\ cmd' = [NoCmd EXCEPT !.fn = "Install", !.arg = v]
    /\ prev' = NoPrev
    /\ UNCHANGED <<store, tmp, registry, version, uv, ret, store0>>

\* Install, up to the creation of the scratch directory
InstallResolve ==
    /\ pc = "in_resolve"
    /\ \E available \in QueryResults[registry], mkdirOk \in BOOLEAN :
          \E r \in {RegistryResolve(iv.version, available)} :
              IF r.err # ""
              THEN /\ Return([NoRet EXCEPT !.fn = "Install", !.err = r.err])
                   /\ UNCHANGED <<tmp, iv>>
              ELSE IF ~mkdirOk
              THEN /\ Return([NoRet EXCEPT !.fn = "Install", !.err = "mkdir temp"])
                   /\ UNCHANGED <<tmp, iv>>
              ELSE /\ tmp' = "empty"
                   /\ iv' = [iv EXCEPT !.resolved = r.version]
                   /\ pc' = "in_npm"
                   /\ UNCHANGED <<stack, ret>>
    /\ UNCHANGED <<store, registry, version, uv, cmd, calls, store0, prev>>

\* An Install that clears the output folder before the package is checked
InstallNpmRemovingFirst ==
    /\ pc = "in_npm"
    /\ \E outcome \in InstallOutcomes :
          \E packageJson \in {ScratchManifest(outcome, iv.resolved)} :
              IF outcome = "fail"
              THEN /\ InstallReturn("failed to install gitbook", "")
                   /\ iv' = [iv EXCEPT !.outcome = outcome]
              ELSE IF ~packageJson.ok
              THEN /\ InstallReturn("package.json", "")
                   /\ iv' = [iv EXCEPT !.outcome = outcome]
              ELSE IF packageJson.name # "gitbook"
              THEN /\ InstallReturn("installed package is not gitbook", "")
                   /\ iv' = [iv EXCEPT !.outcome = outcome]
              ELSE IF ~IsValid(packageJson.version, GITBOOK_VERSION)
              THEN /\ InstallReturn("invalid GitBook version", "")
                   /\ iv' = [iv EXCEPT !.outcome = outcome]
              ELSE /\ tmp' = "installed"
                   /\ iv' = [iv EXCEPT !.actual = packageJson.version,
                                      !.outcome = outcome]
                   /\ pc' = "in_remove"
                   /\ UNCHANGED <<stack, ret>>
    /\ store' = [store EXCEPT ![iv.resolved] = NoEntry]
    /\ UNCHANGED <<registry, version, uv, cmd, calls, store0, prev>>

\* Install, from running npm to the check of the installed package.json
InstallNpm ==
    /\ pc = "in_npm"
    /\ \E outcome \in InstallOutcomes :
          \E packageJson \in {ScratchManifest(outcome, iv.resolved)} :
              IF outcome = "fail"
              THEN /\ InstallReturn("failed to install gitbook", "")
                   /\ iv' = [iv EXCEPT !.outcome = outcome]
              ELSE IF ~packageJson.ok
              THEN /\ InstallReturn("package.json", "")
                   /\ iv' = [iv EXCEPT !.outcome = outcome]
              ELSE IF packageJson.name # "gitbook"
              THEN /\ InstallReturn("installed package is not gitbook", "")
                   /\ iv' = [iv EXCEPT !.outcome = outcome]
              ELSE IF ~IsValid(packageJson.version, GITBOOK_VERSION)
              THEN /\ InstallReturn("invalid GitBook version", "")
                   /\ iv' = [iv EXCEPT !.outcome = outcome]
              ELSE /\ tmp' = "installed"
                   /\ iv' = [iv EXCEPT !.actual = packageJson.version,
                                      !.outcome = outcome]
                   /\ pc' = "in_remove"
                   /\ UNCHANGED <<stack, ret>>
    /\ UNCHANGED <<store, registry, version, uv, cmd, calls, store0, prev>>

\* Install: os.RemoveAll(outputFolder)
InstallRemoveOld ==
    /\ pc = "in_remove"
    /\ \E removeOk \in BOOLEAN :
          IF ~removeOk /\ store[iv.actual].kind # "none"
          THEN InstallReturn("remove all", "") /\ UNCHANGED store
          ELSE /\ store' = [store EXCEPT ![iv.actual] = NoEntry]
               /\ pc' = "in_copy"
               /\ UNCHANGED <<tmp, stack, ret>>
    /\ UNCHANGED <<registry, version, iv, uv, cmd, calls, store0, prev>>

\* a copyDir that leaves package.json out
copyDirWithoutManifest(entry, idx, ver) ==
    IF idx = 0 THEN (IF entry.kind = "dir" THEN entry ELSE DirEntry({}, ver))
    ELSE IF idx = ManifestFile THEN entry
    ELSE DirEntry(entry.files \cup {idx}, ver)

\* a copyDir whose walk does not copy the file it visits last
copyDirStoppingEarly(entry, idx, ver) ==
    IF idx = 0 THEN (IF entry.kind = "dir" THEN entry ELSE DirEntry({}, ver))
    ELSE IF idx = NumFiles THEN entry
    ELSE DirEntry(entry.files \cup {idx}, ver)

\* what one visit of copyDir's walk leaves at dst: visit 0 is the root
\* directory, visit k > 0 is the k-th file
copyDir(entry, idx, ver) ==
    IF idx = 0 THEN (IF entry.kind = "dir" THEN entry ELSE DirEntry({}, ver))
    ELSE DirEntry(entry.files \cup {idx}, ver)

\* Install: one visit of copyDir's walk; after the last, Install returns
InstallCopy ==
    /\ pc = "in_copy"
    /\ \E copyOk \in BOOLEAN :
          IF ~copyOk
          THEN InstallReturn("copy", "") /\ UNCHANGED <<store, iv, calls>>
          ELSE /\ store' = [store EXCEPT ![iv.actual] = copyDir(@, iv.idx, iv.actual)]
               /\ IF iv.idx = NumFiles
                  THEN /\ InstallReturn("", iv.actual)
                       /\ calls' = [calls EXCEPT !.installed = @ + 1]
                       /\ UNCHANGED iv
                  ELSE /\ iv' = [iv EXCEPT !.idx = @ + 1]
                       /\ UNCHANGED <<tmp, stack, pc, ret, calls>>
    /\ UNCHANGED <<registry, version, uv, cmd, store0, prev>>

(***************************************************************************)
(* package manager                                                         *)
(***************************************************************************)
BookVersion(bookRoot) ==
    LET bookJson == ReadBookJson(bookRoot)
    IN  IF ~bookJson.readable THEN "*"
        ELSE IF ~bookJson.json THEN "*"
        ELSE IF bookJson.gitbook # "" THEN bookJson.gitbook
        ELSE "*"

\* a command that starts with EnsureVersion(bookRoot, v, true)
CmdEnsureVersion(bookRoot, v) ==
    /\ pc = "idle"
    /\ stack' = <<Frame("EnsureVersion", TRUE, bookRoot)>>
    /\ version' = v
    /\ pc' = "ev_resolve"
    /\ cmd' = [fn |-> "EnsureVersion", arg |-> v, arg2 |-> bookRoot, install |-> TRUE]
    /\ prev' = NoPrev
    /\ UNCHANGED <<store, tmp, registry, iv, uv, ret, calls, store0>>

\* GetVersion(bookRoot, v): EnsureVersion(bookRoot, v, false)
CmdGetVersion(bookRoot, v) ==
    /\ pc = "idle"
    /\ stack' = <<Frame("EnsureVersion", FALSE, bookRoot)>>
    /\ version' = v
    /\ pc' = "ev_resolve"
    /\ cmd' = [fn |-> "EnsureVersion", arg |-> v, arg2 |-> bookRoot, install |-> FALSE]
    /\ prev' = NoPrev
    /\ UNCHANGED <<store, tmp, registry, iv, uv, ret, calls, store0>>

\* EnsureVersion, from its entry to its return or to its call of Install
EvResolve ==
    /\ pc = "ev_resolve"
    /\ \E v \in {IF version = "" THEN BookVersion(Top.bookRoot) ELSE version} :
       \E r \in {Resolve(store, v)} :
           /\ version' = v
           /\ IF r.err = ""
              THEN /\ Return([NoRet EXCEPT !.fn = "EnsureVersion", !.info = r.info])
                   /\ calls' = [calls EXCEPT !.resolve = @ + 1]
                   /\ UNCHANGED iv
              ELSE IF ~Top.install
              THEN /\ Return([NoRet EXCEPT !.fn = "EnsureVersion", !.err = r.err])
                   /\ calls' = [calls EXCEPT !.resolve = @ + 1]
                   /\ UNCHANGED iv
              ELSE /\ stack' = Append(stack, Frame("Install", FALSE, ""))
                   /\ pc' = "in_resolve"
                   /\ iv' = [NoIv EXCEPT !.version = v]
                   /\ calls' = [calls EXCEPT !.resolve = @ + 1, !.install = @ + 1]
                   /\ UNCHANGED ret
    /\ UNCHANGED <<store, tmp, registry, uv, cmd, store0, prev>>

\* a retry that may install again
RetryFrameInstalling(bookRoot) == Frame("EnsureVersion", TRUE, bookRoot)

\* the frame of "return EnsureVersion(bookRoot, version, false)"
RetryFrame(bookRoot) == Frame("EnsureVersion", FALSE, bookRoot)

\* EnsureVersion after Install returned: the error, or the retry
EvInstalled ==
    /\ pc = "ev_installed"
    /\ IF ret.err # ""
       THEN Return([NoRet EXCEPT !.fn = "EnsureVersion", !.err = ret.err])
       ELSE /\ stack' = Append(stack, RetryFrame(Top.bookRoot))
            /\ pc' = "ev_resolve"
            /\ UNCHANGED ret
    /\ UNCHANGED <<store, tmp, registry, version, iv, uv, cmd, calls, store0, prev>>

\* EnsureVersion returns what its retry returned
EvRetried ==
    /\ pc = "ev_retried"
    /\ Return(ret)
    /\ UNCHANGED <<store, tmp, registry, version, iv, uv, cmd, calls, store0, prev>>

\* a command that calls EnsureAndLoad(bookRoot, v)
CmdEnsureAndLoad(bookRoot, v) ==
    /\ pc = "idle"
    /\ stack' = <<Frame("EnsureAndLoad", FALSE, bookRoot), Frame("EnsureVersion", TRUE, bookRoot)>>
    /\ version' = v
    /\ pc' = "ev_resolve"
    /\ cmd' = [fn |-> "EnsureAndLoad", arg |-> v, arg2 |-> bookRoot, install |-> TRUE]
    /\ prev' = NoPrev
    /\ UNCHANGED <<store, tmp, registry, iv, uv, ret, calls, store0>>

\* EnsureAndLoad after EnsureVersion returned
EalLoad ==
    /\ pc = "eal_load"
    /\ IF ret.err # ""
       THEN Return([NoRet EXCEPT !.fn = "EnsureAndLoad", !.err = ret.err])
       ELSE \E loaded \in {Load(store, ret.info)} :
                Return([NoRet EXCEPT !.fn = "EnsureAndLoad", !.err = loaded.err,
                                     !.val = loaded.path, !.info = ret.info])
    /\ UNCHANGED <<store, tmp, registry, version, iv, uv, cmd, calls, store0, prev>>

\* the update command
CmdUpdateVersion(tag) ==
    /\ pc = "idle"
    /\ stack' = <<Frame("UpdateVersion", FALSE, "")>>
    /\ uv' = [NoUv EXCEPT !.tag = tag]
    /\ pc' = "uv_start"
    /\ cmd' = [NoCmd EXCEPT !.fn = "UpdateVersion", !.arg = tag]
    /\ prev' = IF prev.fn = "UpdateVersion" /\ prev.arg = tag THEN prev ELSE NoPrev
    /\ UNCHANGED <<store, tmp, registry, version, iv, ret, calls, store0>>

\* "Check if update is needed": TRUE when UpdateVersion returns without
\* installing
NoUpdateNeeded(hasCurrent, remoteVersion, currentVersion) ==
    hasCurrent /\ Sort(remoteVersion, currentVersion) >= 0

\* UpdateVersion, from its entry to its return or to its call of Install
UvStart ==
    /\ pc = "uv_start"
    /\ \E available \in QueryResults[registry], versions \in {Versions(store)} :
          LET tag        == IF uv.tag = "" THEN "latest" ELSE uv.tag
              hasCurrent == Len(versions) > 0
              currentV   == IF hasCurrent THEN versions[1] ELSE NoInfo
              known      == available.err = "" /\ tag \in DOMAIN available.cat.tags
              remoteVersion == IF known THEN available.cat.tags[tag] ELSE ""
          IN  /\ uv' = [tag |-> tag, hasCurrent |-> hasCurrent, currentV |-> currentV,
                        remoteVersion |-> remoteVersion, removeErr |-> ""]
              /\ IF available.err # ""
                 THEN /\ Return([NoRet EXCEPT !.fn = "UpdateVersion", !.err = available.err])
                      /\ UNCHANGED <<iv, calls>>
                 ELSE IF ~known
                 THEN /\ Return([NoRet EXCEPT !.fn = "UpdateVersion", !.err = "tag doesn't exist"])
                      /\ UNCHANGED <<iv, calls>>
                 ELSE IF NoUpdateNeeded(hasCurrent, remoteVersion, currentV.Version)
                 THEN /\ Return([NoRet EXCEPT !.fn = "UpdateVersion"])
                      /\ UNCHANGED <<iv, calls>>
                 ELSE /\ CallInstall(remoteVersion)
                      /\ UNCHANGED ret
    /\ UNCHANGED <<store, tmp, registry, version, cmd, store0, prev>>

\* "Remove previous version if exists": the argument of local.Remove
RemovedName(currentV) == currentV.Tag

\* UpdateVersion after Install returned
UvInstalled ==
    /\ pc = "uv_installed"
    /\ IF ret.err # ""
       THEN /\ Return([NoRet EXCEPT !.fn = "UpdateVersion", !.err = ret.err])
            /\ UNCHANGED <<store, calls, uv>>
       ELSE /\ Return([NoRet EXCEPT !.fn = "UpdateVersion", !.val = ret.val])
            /\ IF uv.hasCurrent
               THEN \E removed \in {Remove(store, RemovedName(uv.currentV))} :
                       /\ store' = removed.store
                       /\ uv' = [uv EXCEPT !.removeErr = removed.err]
                       /\ calls' = [calls EXCEPT !.remove = @ + 1]
               ELSE UNCHANGED <<store, calls, uv>>
    /\ UNCHANGED <<tmp, registry, version, iv, cmd, store0, prev>>

(***************************************************************************)
(* The commands that are one call: alias, uninstall, ls, ls-remote         *)
(***************************************************************************)
CmdLink(name, folder) ==
    /\ pc = "idle"
    /\ \E r \in {Link(store, name, folder)} :
           /\ store' = r.store
           /\ ret' = [NoRet EXCEPT !.fn = "Link", !.err = r.err]
    /\ pc' = "done"
    /\ cmd' = [NoCmd EXCEPT !.fn = "Link", !.arg = name, !.arg2 = folder]
    /\ UNCHANGED <<tmp, registry, stack, version, iv, uv, calls, store0, prev>>

CmdRemove(name) ==
    /\ pc = "idle"
    /\ \E r \in {Remove(store, name)} :
           /\ store' = r.store
           /\ ret' = [NoRet EXCEPT !.fn = "Remove", !.err = r.err]
    /\ pc' = "done"
    /\ cmd' = [NoCmd EXCEPT !.fn = "Remove", !.arg = name]
    /\ prev' = NoPrev
    /\ UNCHANGED <<tmp, registry, stack, version, iv, uv, calls, store0>>

CmdVersions ==
    /\ pc = "idle"
    /\ ret' = [NoRet EXCEPT !.fn = "Versions", !.list = Versions(store)]
    /\ pc' = "done"
    /\ cmd' = [NoCmd EXCEPT !.fn = "Versions"]
    /\ prev' = NoPrev
    /\ UNCHANGED <<store, tmp, registry, stack, version, iv, uv, calls, store0>>

CmdLsRemote ==
    /\ pc = "idle"
    /\ \E n \in NpmOutcomes, h \in HttpOutcomes, o \in MapOrders(registry.versions) :
          \E available \in {RegistryVersions(n, h, o, registry)} :
              ret' = [NoRet EXCEPT !.fn = "RegistryVersions", !.err = available.err,
                                   !.npm = n,
                                   !.http = IF Len(available.tried) > 1 THEN h ELSE "",
                                   !.tried = available.tried, !.cat = available.cat]
    /\ pc' = "done"
    /\ cmd' = [NoCmd EXCEPT !.fn = "RegistryVersions"]
    /\ prev' = NoPrev
    /\ UNCHANGED <<store, tmp, registry, stack, version, iv, uv, calls, store0>>

\* the command has ended; the next one starts from the store it left
Exit ==
    /\ pc = "done"
    /\ pc' = "idle"
    /\ ret' = NoRet
    /\ cmd' = NoCmd
    /\ calls' = NoCalls
    /\ version' = ""
    /\ iv' = NoIv
    /\ uv' = NoUv
    /\ store0' = store
    /\ prev' = IF cmd.fn = "Link"
               THEN [fn |-> "Link", arg |-> cmd.arg, arg2 |-> cmd.arg2, err |-> ret.err]
               ELSE IF cmd.fn = "UpdateVersion" /\ ret.err = "" /\ ret.val # ""
               THEN [fn |-> "UpdateVersion", arg |-> cmd.arg, arg2 |-> "", err |-> ""]
               ELSE NoPrev
    /\ UNCHANGED <<store, tmp, registry, stack>>

(***************************************************************************)
(* The specification                                                       *)
(***************************************************************************)
\* after config.Init: an empty store root
Init ==
    /\ store = InitialFiles
    /\ tmp = "none"
    /\ registry \in RawCatalogs
    /\ stack = <<>>
    /\ pc = "idle"
    /\ version = ""
    /\ iv = NoIv
    /\ uv = NoUv
    /\ ret = NoRet
    /\ cmd = NoCmd
    /\ calls = NoCalls
    /\ store0 = InitialFiles
    /\ prev = NoPrev

Next ==
    \/ \E v \in Requests : CmdInstall(v)
    \/ InstallResolve
    \/ InstallNpm
    \/ InstallRemoveOld
    \/ InstallCopy
    \/ \E b \in BookRoots : CmdEnsureVersion(b, "")
    \/ \E v \in Requests : CmdEnsureVersion("/books/none", v)
    \/ \E v \in Requests : CmdGetVersion("/books/none", v)
    \/ EvResolve
    \/ EvInstalled
    \/ EvRetried
    \/ \E b \in BookRoots : CmdEnsureAndLoad(b, "")
    \/ \E v \in Requests : CmdEnsureAndLoad("/books/none", v)
    \/ EalLoad
    \/ \E t \in UpdateTags : CmdUpdateVersion(t)
    \/ UvStart
    \/ UvInstalled
    \/ \E n \in Names \cup {""}, f \in {"gitbook", "/w/gone", ""} : CmdLink(n, f)
    \/ \E n \in Names \cup {""} : CmdRemove(n)
    \/ CmdVersions
    \/ CmdLsRemote
    \/ Exit

Spec == Init /\ [][Next]_vars

(***************************************************************************)
(* tags.Sort on its own: every pair of identifiers, compared once          *)
(***************************************************************************)
SortInit ==
    /\ store = InitialFiles
    /\ tmp = "none"
    /\ registry \in RawCatalogs
    /\ stack = <<>>
    /\ pc = "idle"
    /\ version = ""
    /\ iv = NoIv
    /\ uv = NoUv
    /\ ret = NoRet
    /\ \E a, b \in Identifiers : cmd = [NoCmd EXCEPT !.fn = "Sort", !.arg = a, !.arg2 = b]
    /\ calls = NoCalls
    /\ store0 = InitialFiles
    /\ prev = NoPrev

SortCall ==
    /\ pc = "idle"
    /\ cmd.fn = "Sort"
    /\ ret' = [NoRet EXCEPT !.fn = "Sort", !.cmp = Sort(cmd.arg, cmd.arg2)]
    /\ pc' = "done"
    /\ UNCHANGED <<store, tmp, registry, stack, version, iv, uv, cmd, calls, store0, prev>>

SortNext == SortCall

SortSpec == SortInit /\ [][SortNext]_vars

(***************************************************************************)
(* tags.Satisfies on its own: every version, condition and flag, once      *)
(***************************************************************************)
SatisfiesInit ==
    /\ store = InitialFiles
    /\ tmp = "none"
    /\ registry \in RawCatalogs
    /\ stack = <<>>
    /\ pc = "idle"
    /\ version = ""
    /\ iv = NoIv
    /\ uv = NoUv
    /\ ret = NoRet
    /\ \E v, c \in Identifiers, acceptTagCondition \in BOOLEAN :
           cmd = [fn |-> "Satisfies", arg |-> v, arg2 |-> c, install |-> FALSE,
                  acceptTagCondition |-> acceptTagCondition]
    /\ calls = NoCalls
    /\ store0 = InitialFiles
    /\ prev = NoPrev

SatisfiesCall ==
    /\ pc = "idle"
    /\ cmd.fn = "Satisfies"
    /\ ret' = [NoRet EXCEPT !.fn = "Satisfies",
                            !.ok = Satisfies(cmd.arg, cmd.arg2, cmd.acceptTagCondition)]
    /\ pc' = "done"
    /\ UNCHANGED <<store, tmp, registry, stack, version, iv, uv, cmd, calls, store0, prev>>

SatisfiesNext == SatisfiesCall

SatisfiesSpec == SatisfiesInit /\ [][SatisfiesNext]_vars

(***************************************************************************)
(* local.Load on its own: a condition string or a *VersionInfo, on a store *)
(* that another gitbook process may remove entries from                    *)
(***************************************************************************)
\* the store roots Load is tried on: each version installed or not, the
\* alias absent, pointing at the checkout, or pointing at nothing
LoadStores ==
    { [p \in Paths |->
          IF p = "2.0.0" THEN a
          ELSE IF p = "3.0.0" THEN b
          ELSE IF p = "latest" THEN l
          ELSE InitialFiles[p]] :
        a \in {NoEntry, DirEntry(ArtifactFiles, "2.0.0")},
        b \in {NoEntry, DirEntry(ArtifactFiles, "3.0.0")},
        l \in {NoEntry, LinkEntry("/w/gitbook"), LinkEntry("/w/gone")} }

\* the *VersionInfo values a caller can hold: what Versions() listed at some
\* time
ListedInfos ==
    UNION { {Versions(st)[k] : k \in 1..Len(Versions(st))} : st \in LoadStores }

LoadInit ==
    /\ store \in LoadStores
    /\ tmp = "none"
    /\ registry \in RawCatalogs
    /\ stack = <<>>
    /\ pc = "idle"
    /\ version = ""
    /\ iv = NoIv
    /\ uv = NoUv
    /\ ret = NoRet
    /\ \/ \E condition \in Requests :
              cmd = [fn |-> "Load", arg |-> condition, arg2 |-> "", install |-> FALSE,
                     isString |-> TRUE, info |-> NoInfo]
       \/ \E v \in ListedInfos :
              cmd = [fn |-> "Load", arg |-> "", arg2 |-> "", install |-> FALSE,
                     isString |-> FALSE, info |-> v]
    /\ calls = NoCalls
    /\ store0 = store
    /\ prev = NoPrev

\* Load, case string: Resolve(v), and the return of its error
LoadResolve ==
    /\ pc = "idle"
    /\ cmd.isString
    /\ \E r \in {Resolve(store, cmd.arg)} :
           IF r.err # ""
           THEN /\ ret' = [NoRet EXCEPT !.fn = "Load", !.err = r.err]
                /\ pc' = "done"
           ELSE /\ ret' = [NoRet EXCEPT !.info = r.info]
                /\ pc' = "ld_stat"
    /\ UNCHANGED <<store, tmp, registry, stack, version, iv, uv, cmd, calls, store0, prev>>

\* Load, case *VersionInfo: resolved = v
LoadGiven ==
    /\ pc = "idle"
    /\ ~cmd.isString
    /\ ret' = [NoRet EXCEPT !.info = cmd.info]
    /\ pc' = "ld_stat"
    /\ UNCHANGED <<store, tmp, registry, stack, version, iv, uv, cmd, calls, store0, prev>>

\* another gitbook process removes an entry before Load looks at the path
OtherRemove(v) ==
    /\ pc = "ld_stat"
    /\ \E removed \in {Remove(store, v)} :
           /\ removed.err = ""
           /\ store' = removed.store
    /\ UNCHANGED <<tmp, registry, stack, pc, version, iv, uv, ret, cmd, calls, store0, prev>>

\* Load, from "Verify the path exists" to its return
LoadStat ==
    /\ pc = "ld_stat"
    /\ \E loaded \in {Load(store, ret.info)} :
           ret' = [NoRet EXCEPT !.fn = "Load", !.err = loaded.err,
                                !.val = loaded.path, !.info = ret.info]
    /\ pc' = "done"
    /\ UNCHANGED <<store, tmp, registry, stack, version, iv, uv, cmd, calls, store0, prev>>

LoadNext ==
    \/ LoadResolve
    \/ LoadGiven
    \/ \E v \in Names : OtherRemove(v)
    \/ LoadStat

LoadSpec == LoadInit /\ [][LoadNext]_vars

(***************************************************************************)
(* Two gitbook processes publishing the same version at once: each runs    *)
(* the end of Install, os.RemoveAll(outputFolder) and then copyDir, and    *)
(* the file system calls of the two interleave                             *)
(***************************************************************************)
Procs == {1, 2}

Other(p) == CHOOSE q \in Procs : q # p

\* what can be at the output folder when the two start: nothing, a complete
\* install, or what a failed copy left
RaceEntries(v) == {NoEntry, DirEntry(ArtifactFiles, v), DirEntry({1}, v)}

NoRaceIv == [actual |-> "", idx |-> 0, names |-> {}]

RaceInit ==
    /\ \E v \in {"2.0.0", "3.0.0"} :
           /\ version = v
           /\ \E e \in RaceEntries(v) : store = [InitialFiles EXCEPT ![v] = e]
           /\ iv = [p \in Procs |-> [NoRaceIv EXCEPT !.actual = v]]
    /\ tmp = "installed"
    /\ registry \in RawCatalogs
    /\ stack = <<>>
    /\ pc = [p \in Procs |-> "in_remove"]
    /\ uv = NoUv
    /\ ret = [p \in Procs |-> NoRet]
    /\ cmd = [fn |-> "Install", arg |-> version, arg2 |-> "", install |-> FALSE,
              overlapped |-> FALSE]
    /\ calls = NoCalls
    /\ store0 = store
    /\ prev = NoPrev

\* the return of process p's Install
RaceReturn(p, err, val) ==
    /\ ret' = [ret EXCEPT ![p] = [NoRet EXCEPT !.fn = "Install", !.err = err, !.val = val]]
    /\ pc' = [pc EXCEPT ![p] = "done"]

\* os.RemoveAll(outputFolder), start: nothing there, or the names in it are
\* read
RaceRemoveStart(p) ==
    /\ pc[p] = "in_remove"
    /\ IF store[iv[p].actual].kind = "none"
       THEN /\ pc' = [pc EXCEPT ![p] = "in_copy"]
            /\ UNCHANGED iv
       ELSE /\ pc' = [pc EXCEPT ![p] = "rm_names"]
            /\ iv' = [iv EXCEPT ![p].names = store[iv[p].actual].files]
    /\ cmd' = [cmd EXCEPT !.overlapped = @ \/ pc[Other(p)] \notin {"in_remove", "done"}]
    /\ UNCHANGED <<store, tmp, registry, stack, version, uv, ret, calls, store0, prev>>

\* os.RemoveAll(outputFolder): one of the names read is removed, if it is
\* still there
RaceRemoveName(p) ==
    /\ pc[p] = "rm_names"
    /\ iv[p].names # {}
    /\ \E n \in {CHOOSE m \in iv[p].names : \A o \in iv[p].names : m <= o} :
           /\ store' = [store EXCEPT ![iv[p].actual] =
                            IF @.kind = "dir" THEN [@ EXCEPT !.files = @ \ {n}] ELSE @]
           /\ iv' = [iv EXCEPT ![p].names = @ \ {n}]
    /\ UNCHANGED <<tmp, registry, stack, pc, version, uv, ret, cmd, calls, store0, prev>>

\* os.RemoveAll(outputFolder), end: the directory itself is removed, which
\* fails when it is not empty; Install returns that error
RaceRemoveDir(p) ==
    /\ pc[p] = "rm_names"
    /\ iv[p].names = {}
    /\ IF store[iv[p].actual].kind = "none"
       THEN /\ pc' = [pc EXCEPT ![p] = "in_copy"]
            /\ UNCHANGED <<store, ret>>
       ELSE IF store[iv[p].actual].files # {}
       THEN /\ RaceReturn(p, "unlinkat: directory not empty", "")
            /\ UNCHANGED store
       ELSE /\ store' = [store EXCEPT ![iv[p].actual] = NoEntry]
            /\ pc' = [pc EXCEPT ![p] = "in_copy"]
            /\ UNCHANGED ret
    /\ UNCHANGED <<tmp, registry, stack, version, iv, uv, cmd, calls, store0, prev>>

\* one visit of process p's copyDir walk: a file cannot be created when the
\* directory is not there; after the last visit Install returns
RaceCopy(p) ==
    /\ pc[p] = "in_copy"
    /\ \E copyOk \in BOOLEAN :
          IF ~copyOk
          THEN RaceReturn(p, "copy", "") /\ UNCHANGED <<store, iv>>
          ELSE IF iv[p].idx > 0 /\ store[iv[p].actual].kind # "dir"
          THEN /\ RaceReturn(p, "open: no such file or directory", "")
               /\ UNCHANGED <<store, iv>>
          ELSE /\ store' = [store EXCEPT ![iv[p].actual] = copyDir(@, iv[p].idx, iv[p].actual)]
               /\ IF iv[p].idx = NumFiles
                  THEN RaceReturn(p, "", iv[p].actual) /\ UNCHANGED iv
                  ELSE /\ iv' = [iv EXCEPT ![p].idx = @ + 1]
                       /\ UNCHANGED <<pc, ret>>
    /\ UNCHANGED <<tmp, registry, stack, version, uv, cmd, calls, store0, prev>>

RaceNext ==
    \/ \E p \in Procs : RaceRemoveStart(p)
    \/ \E p \in Procs : RaceRemoveName(p)
    \/ \E p \in Procs : RaceRemoveDir(p)
    \/ \E p \in Procs : RaceCopy(p)

RaceSpec == RaceInit /\ [][RaceNext]_vars

(***************************************************************************)
(* Properties                                                              *)
(***************************************************************************)
\* the requirement an EnsureVersion of the running command resolves
Requirement == IF cmd.arg = "" THEN BookVersion(cmd.arg2) ELSE cmd.arg

\* the names of the entries of a store root
Entries(st) == {n \in Names : st[n].kind # "none"}

\* no version of a registry content passes IsValid
NoValidVersion(raw) ==
    \A k \in 1..Len(raw.versions) : ~IsValid(raw.versions[k], GITBOOK_VERSION)

\* how far a top-level EnsureVersion(_, _, true) has got
EnsureRank ==
    CASE pc = "ev_resolve"   -> IF Len(stack) = 1 THEN 0 ELSE 6
      [] pc = "in_resolve"   -> 1
      [] pc = "in_npm"       -> 2
      [] pc = "in_remove"    -> 3
      [] pc = "in_copy"      -> 4
      [] pc = "ev_installed" -> 5
      [] pc = "ev_retried"   -> 7
      [] OTHER               -> 8

EnsureMeasure == (NumFiles + 1) * EnsureRank + iv.idx

C1_Counts ==
    (cmd.fn = "EnsureVersion" /\ cmd.install) =>
        /\ calls.install <= 1
        /\ calls.resolve <= 1 + calls.installed
        /\ Len(stack) <= 2
        /\ \A k \in 2..Len(stack) : stack[k].fn = "EnsureVersion" => ~stack[k].install
        /\ (pc = "done" /\ Resolve(store0, Requirement).err # "") =>
               /\ calls.install = 1
               /\ calls.resolve = 1 + calls.installed
               /\ calls.installed = 0 => ret.err # ""

C1_Progress ==
    (cmd.fn = "EnsureVersion" /\ cmd.install /\ pc # "done") =>
        /\ EnsureMeasure' > EnsureMeasure
        /\ EnsureMeasure' <= (NumFiles + 1) * 8 + NumFiles

\* C1: EnsureVersion(bookRoot, version, true) on a store with no entry
\* matching the requirement calls registry.Install exactly once and, when the
\* install succeeded, resolves locally exactly once more, by a call that has
\* install = false; it never installs or retries a second time, and every
\* step of the call moves it strictly towards its return, so it terminates.
C1_InstallOnceRetryOnce == []C1_Counts /\ [][C1_Progress]_vars

\* an EnsureVersion that missed, installed, and found the version on its retry
C1_Witness ==
    /\ pc = "done" /\ cmd.fn = "EnsureVersion" /\ cmd.install
    /\ Resolve(store0, Requirement).err # ""
    /\ calls.install = 1 /\ calls.resolve = 2
    /\ ret.err = ""

\* C2: a store entry is never partially written: at every moment, during and
\* after any Install, each directory entry of the store holds a complete
\* artifact.
C2_NeverPartial ==
    \A n \in Names : store[n].kind = "dir" => store[n].files = ArtifactFiles

\* C3: when EnsureAndLoad(bookRoot, version) returns without error, the path
\* it returns exists on disk and is the path of a store entry whose name
\* satisfies the requirement used (the version argument, or the book's
\* declared requirement when the argument is empty).
C3_LoadedPathSatisfies ==
    (pc = "done" /\ cmd.fn = "EnsureAndLoad" /\ ret.err = "") =>
        \E n \in Names :
            /\ ret.val = VersionRoot(n)
            /\ \/ store[n].kind = "dir"
               \/ store[n].kind = "link" /\ FolderExists(store, store[n].target)
            /\ Satisfies(n, Requirement, TRUE)

\* an EnsureAndLoad that had to install before it could load
C3_Witness ==
    /\ pc = "done" /\ cmd.fn = "EnsureAndLoad" /\ ret.err = ""
    /\ calls.installed = 1
    /\ ret.val # ""
    /\ Entries(store0) # {}

\* C4: local.Versions() returns the installed entries newest first: of two
\* returned entries, the earlier one's manifest version is not older than
\* the later one's.
C4_NewestFirst ==
    (pc = "done" /\ cmd.fn = "Versions") =>
        \A i, j \in 1..Len(ret.list) :
            i < j => ~LessThan(NewVersion(ret.list[i].Version),
                               NewVersion(ret.list[j].Version))

\* C5: UpdateVersion(tag), when a version is installed and the remote version
\* of the tag is not strictly newer than the newest installed version,
\* returns the no-update signal, installs nothing, removes nothing and leaves
\* the store as it was.
C5_NoUpdateIsNoOp ==
    (/\ pc = "done" /\ cmd.fn = "UpdateVersion"
     /\ uv.remoteVersion # ""
     /\ \E k \in 1..Len(Versions(store0)) :
            ~LessThan(NewVersion(Versions(store0)[k].Version),
                      NewVersion(uv.remoteVersion)))
    => /\ ret.err = "" /\ ret.val = ""
       /\ calls.install = 0 /\ calls.remove = 0
       /\ store = store0

\* C6: when UpdateVersion(tag) installs a newer remote version and the
\* removal does not fail, the entries of the store afterwards are those
\* before, minus the previous current entry, plus the installed version.
C6_OnlyPreviousRemoved ==
    (/\ pc = "done" /\ cmd.fn = "UpdateVersion"
     /\ ret.err = "" /\ ret.val # ""
     /\ uv.removeErr = ""
     /\ uv.hasCurrent => LessThan(NewVersion(uv.currentV.Version),
                                  NewVersion(uv.remoteVersion)))
    => Entries(store) =
           (Entries(store0) \ (IF uv.hasCurrent THEN {uv.currentV.Name} ELSE {}))
               \cup {ret.val}

\* C7 as first stated: registry.Versions() tries the HTTP tier only when the
\* npm tier fails with its own error (absent, non-zero exit, unparseable
\* output); when the npm output parses and no version passes validity, the
\* HTTP tier is not tried and the "no valid version" error is returned.
C7_FallbackOnOwnErrorOnly ==
    (pc = "done" /\ cmd.fn = "RegistryVersions") =>
        /\ Len(ret.tried) = 2 <=> ret.npm # "ok"
        /\ (ret.npm = "ok" /\ NoValidVersion(registry)) =>
               ret.tried = <<"npm">> /\ ret.err = "no valid version"

\* C7: registry.Versions() tries the HTTP tier exactly when the npm tier
\* returns an error of any kind, its own failure or the "no valid version"
\* error of an output that parses with no version passing validity; what the
\* HTTP tier returns is then what Versions() returns.
C7_FallbackOnAnyError ==
    (pc = "done" /\ cmd.fn = "RegistryVersions") =>
        /\ ret.tried \in {<<"npm">>, <<"npm", "http">>}
        /\ ret.tried = <<"npm", "http">> <=> (ret.npm # "ok" \/ NoValidVersion(registry))
        /\ ret.tried = <<"npm">> => ret.err = ""
        /\ (ret.tried = <<"npm", "http">> /\ ret.http # "ok") => ret.err \in {"http failed", "http json"}

\* the npm output parsed, no version passed validity, the HTTP tier was tried
C7_Witness ==
    /\ pc = "done" /\ cmd.fn = "RegistryVersions"
    /\ ret.npm = "ok" /\ NoValidVersion(registry)
    /\ ret.tried = <<"npm", "http">>

\* C8: when the npm tier exits with a non-zero status, registry.Versions()
\* tries the HTTP tier exactly once; when that tier too has no valid
\* version, the error returned is "no valid version", not the npm tier's.
C8_FallbackErrorReturned ==
    (pc = "done" /\ cmd.fn = "RegistryVersions" /\ ret.npm = "exit1") =>
        /\ ret.tried = <<"npm", "http">>
        /\ (ret.http = "ok" /\ NoValidVersion(registry)) => ret.err = "no valid version"
        /\ ret.err # "npm failed"

\* npm exited non-zero, the HTTP tier answered with no valid version
C8_Witness ==
    /\ pc = "done" /\ cmd.fn = "RegistryVersions"
    /\ ret.npm = "exit1" /\ ret.http = "ok" /\ NoValidVersion(registry)
    /\ ret.err = "no valid version"

C10_LinkReplaces ==
    (pc = "done" /\ cmd.fn = "Link" /\ cmd.arg # "" /\ cmd.arg2 # "") =>
        /\ ret.err = ""
        /\ store[cmd.arg] = LinkEntry(Abs(cmd.arg2))

\* C11 is about two Link calls in a row with the same non-empty arguments
LinkedTwice ==
    /\ pc = "done" /\ cmd.fn = "Link"
    /\ prev.fn = "Link" /\ prev.arg = cmd.arg /\ prev.arg2 = cmd.arg2
    /\ cmd.arg # "" /\ cmd.arg2 # ""

\* C11: Link(name, folder) called twice in a row with the same arguments:
\* both calls succeed and the entry at name is a symlink to the absolute
\* form of folder.
C11_LinkTwice ==
    LinkedTwice =>
        /\ prev.err = "" /\ ret.err = ""
        /\ store[cmd.arg] = LinkEntry(Abs(cmd.arg2))

\* C12: Remove(name) of a symlink removes the link and leaves the directory
\* it points at as it was; of a real directory removes the directory with
\* its files; of a name with no entry returns the "not installed" error and
\* changes nothing. Nothing else in the file system changes.
C12_RemoveOnlyTheEntry ==
    (pc = "done" /\ cmd.fn = "Remove" /\ cmd.arg # "") =>
        IF store0[cmd.arg].kind = "none"
        THEN ret.err = "not installed" /\ store = store0
        ELSE /\ ret.err = ""
             /\ store[cmd.arg] = NoEntry
             /\ \A p \in Paths \ {cmd.arg} : store[p] = store0[p]

\* an alias of an existing folder was removed
C12_Witness ==
    /\ pc = "done" /\ cmd.fn = "Remove" /\ ret.err = ""
    /\ store0[cmd.arg].kind = "link"
    /\ FolderExists(store0, store0[cmd.arg].target)
    /\ FolderExists(store, store0[cmd.arg].target)

\* the positions of Versions() on the current store whose name satisfies the
\* requirement
Matching ==
    {k \in 1..Len(Versions(store)) : Satisfies(Versions(store)[k].Name, Requirement, TRUE)}

\* C13: local.Resolve(condition) returns the first entry, in the order of
\* Versions(), whose name satisfies the condition; when there is none, as
\* for "*" on an empty store root, it returns an error naming the condition.
C13_ResolveFirstMatch ==
    (pc = "done" /\ cmd.fn = "EnsureVersion" /\ ~cmd.install) =>
        IF Matching = {}
        THEN /\ ret.err = "no version match: " \o Requirement
             /\ ret.info = NoInfo
        ELSE /\ ret.err = ""
             /\ \E k \in Matching :
                    /\ \A o \in Matching : k <= o
                    /\ ret.info = Versions(store)[k]

\* Resolve("*") on an empty store root
C13_Witness ==
    /\ pc = "done" /\ cmd.fn = "EnsureVersion" /\ ~cmd.install
    /\ Entries(store) = {}
    /\ Requirement = "*"
    /\ ret.err = "no version match: *"

\* C14: for tags a, b with a earlier than b in ALLOWED_TAGS, Sort(a, b) ranks
\* a newer, with the sign Sort gives a newer first version (negative), and
\* Sort(b, a) is the inverse.
C14_EarlierTagNewer ==
    (/\ pc = "done" /\ cmd.fn = "Sort"
     /\ IsTag(cmd.arg) /\ IsTag(cmd.arg2)
     /\ getTagIndex(cmd.arg) < getTagIndex(cmd.arg2))
    => /\ ret.cmp < 0
       /\ Sort(cmd.arg2, cmd.arg) = 0 - ret.cmp

\* C15: for every tag t and every semantic version v, Sort(t, v) ranks t
\* newer (negative, as for a newer first version) and Sort(v, t) ranks v
\* older (positive).
C15_TagNewerThanVersion ==
    (/\ pc = "done" /\ cmd.fn = "Sort"
     /\ IsTag(cmd.arg) /\ ~NewVersion(cmd.arg2).err)
    => /\ ret.cmp < 0
       /\ Sort(cmd.arg2, cmd.arg) > 0

\* the last tag of the list compared with a version
C15_Witness ==
    /\ pc = "done" /\ cmd.fn = "Sort"
    /\ cmd.arg = "alpha" /\ cmd.arg2 = "3.0.0"
    /\ ret.cmp = 0 - 1

C17_InstalledIsListed ==
    (/\ ret.fn = "Install" /\ ret.err = ""
     /\ pc \in {"ev_installed", "uv_installed", "done"})
    => \E k \in 1..Len(Versions(store)) :
           /\ Versions(store)[k].Version = ret.val
           /\ Versions(store)[k].Tag = GetTag(ret.val)

\* the install command has installed a version over an older one
C17_Witness ==
    /\ pc = "done" /\ cmd.fn = "Install" /\ ret.err = ""
    /\ ret.val = "3.0.0"
    /\ store0["2.0.0"].kind = "dir"
    /\ Len(Versions(store)) >= 2

\* C18: when the local resolution misses again after an install that
\* reported success, EnsureVersion returns an error that differs from the
\* not-found error Resolve returns when nothing was installed.
C18_DistinctInconsistencyError ==
    (/\ pc = "done" /\ cmd.fn = "EnsureVersion" /\ cmd.install
     /\ calls.installed = 1 /\ ret.err # "")
    => ret.err # "no version match: " \o Requirement

\* C19: a catalog registry.Versions() returns without error, from either
\* tier, has a non-empty version list whose entries all pass IsValid and a
\* tag map whose values all pass IsValid; with no valid version the query
\* returns an error.
C19_CatalogValid ==
    (pc = "done" /\ cmd.fn = "RegistryVersions") =>
        /\ ret.err = "" =>
              /\ Len(ret.cat.versions) > 0
              /\ \A k \in 1..Len(ret.cat.versions) :
                     IsValid(ret.cat.versions[k], GITBOOK_VERSION)
              /\ \A t \in DOMAIN ret.cat.tags : IsValid(ret.cat.tags[t], GITBOOK_VERSION)
        /\ NoValidVersion(registry) => ret.err # "" /\ ret.cat = NoCatalog

\* the fallback tier returned a catalog from which a prerelease version and
\* its tag were filtered out
C19_Witness ==
    /\ pc = "done" /\ cmd.fn = "RegistryVersions" /\ ret.err = ""
    /\ ret.tried = <<"npm", "http">>
    /\ "beta" \in DOMAIN registry.tags /\ "beta" \notin DOMAIN ret.cat.tags
    /\ Len(ret.cat.versions) < Len(registry.versions)

\* C20: the version list of a catalog registry.Versions() returns is sorted
\* newest first: an earlier entry is not older than a later one.
C20_CatalogNewestFirst ==
    (pc = "done" /\ cmd.fn = "RegistryVersions" /\ ret.err = "") =>
        \A i, j \in 1..Len(ret.cat.versions) :
            i < j => ~LessThan(NewVersion(ret.cat.versions[i]),
                               NewVersion(ret.cat.versions[j]))

\* C21: Satisfies(version, condition, acceptTagCondition) decides by three
\* branches: a tag version satisfies only "*" and itself; another version
\* satisfies when acceptTagCondition is set and GetTag(version) is the
\* condition; otherwise it satisfies exactly when the version parses, the
\* condition parses as a constraint and the constraint accepts the version.
C21_SatisfiesRule ==
    (pc = "done" /\ cmd.fn = "Satisfies") =>
        ret.ok = IF cmd.arg \in {"latest", "pre", "beta", "alpha"}
                 THEN cmd.arg2 \in {"*", cmd.arg}
                 ELSE \/ cmd.acceptTagCondition /\ GetTag(cmd.arg) = cmd.arg2
                      \/ /\ ~NewVersion(cmd.arg).err
                         /\ ~NewConstraint(cmd.arg2).err
                         /\ Check(NewConstraint(cmd.arg2), NewVersion(cmd.arg))

\* "2.0.0-beta.1" satisfies "beta" when tag conditions are accepted
C21_Witness ==
    /\ pc = "done" /\ cmd.fn = "Satisfies"
    /\ cmd.arg = "2.0.0-beta.1" /\ cmd.arg2 = "beta" /\ cmd.acceptTagCondition
    /\ ret.ok

\* the identifiers that are neither a tag nor a parseable version
Unparseable(s) == ~IsTag(s) /\ NewVersion(s).err

\* C22: Sort ranks an identifier that is neither a tag nor a parseable
\* version older than every parseable version, in both argument positions
\* (positive when it comes first, negative when second), and two such
\* identifiers equal.
C22_UnparseableOldest ==
    (pc = "done" /\ cmd.fn = "Sort") =>
        /\ (Unparseable(cmd.arg) /\ ~NewVersion(cmd.arg2).err) => ret.cmp > 0
        /\ (~NewVersion(cmd.arg).err /\ Unparseable(cmd.arg2)) => ret.cmp < 0
        /\ (Unparseable(cmd.arg) /\ Unparseable(cmd.arg2)) => ret.cmp = 0

\* C23: Satisfies returns false whenever the version is neither a tag nor a
\* parseable version, for every condition and both values of
\* acceptTagCondition.
C23_UnparseableNeverSatisfies ==
    (pc = "done" /\ cmd.fn = "Satisfies" /\ Unparseable(cmd.arg)) => ~ret.ok

\* C24: when Install returns an error before its publish step (the registry
\* resolution failed, no scratch directory, npm failed, package.json
\* unreadable or malformed, wrong package name, disallowed version), the store
\* is exactly as it was before the call; a wrong package and a disallowed
\* version are reported by two different errors.
C24_AbortLeavesStore ==
    (ret.fn = "Install" /\ ret.err # "" /\ iv.actual = "")
    => /\ store = store0
       /\ iv.outcome = "wrongpkg" =>
              /\ ret.err = "installed package is not gitbook"
              /\ ret.err # "invalid GitBook version"
       /\ iv.outcome = "disallowed" =>
              /\ ret.err = "invalid GitBook version"
              /\ ret.err # "installed package is not gitbook"

C24_Witness ==
    /\ ret.fn = "Install" /\ iv.actual = ""
    /\ iv.outcome = "disallowed" /\ ret.err = "invalid GitBook version"
    /\ iv.resolved \in Entries(store0)
    /\ store = store0

\* the request registry.Resolve matches against the catalog, after the
\* dist-tags mapping
RegistryWanted ==
    IF iv.version \in DOMAIN ValidTags(registry.tags)
    THEN ValidTags(registry.tags)[iv.version]
    ELSE iv.version

\* C27: the version registry.Resolve hands to Install is the newest valid
\* published version that satisfies the request: no valid published version
\* satisfying it is newer.
C27_ResolveNewest ==
    pc = "in_npm" =>
        \A k \in 1..Len(registry.versions) :
            (/\ IsValid(registry.versions[k], GITBOOK_VERSION)
             /\ Satisfies(registry.versions[k], RegistryWanted, FALSE))
            => ~LessThan(NewVersion(iv.resolved), NewVersion(registry.versions[k]))

\* C28: when the Install inside EnsureVersion(projectRoot, r, true) has
\* succeeded, EnsureVersion returns an entry and no error.
C28_RetryFindsEntry ==
    (pc = "done" /\ cmd.fn = "EnsureVersion" /\ cmd.install /\ calls.installed = 1)
    => ret.err = "" /\ ret.info # NoInfo

\* C29: when Install returns an error and the resolved version was completely
\* installed before the call, that install is still there, complete.
C29_FailedReinstallKeeps ==
    (/\ ret.fn = "Install" /\ ret.err # ""
     /\ iv.resolved # ""
     /\ store0[iv.resolved] = DirEntry(ArtifactFiles, iv.resolved))
    => store[iv.resolved] = store0[iv.resolved]

\* C26: an UpdateVersion(tag) that directly follows an UpdateVersion(tag)
\* which installed a version and returned it, and that reads the same remote
\* catalog, returns the no-update signal, installs nothing and removes
\* nothing.
C26_UpdateIdempotent ==
    (/\ pc = "done" /\ cmd.fn = "UpdateVersion"
     /\ prev.fn = "UpdateVersion" /\ prev.arg = cmd.arg
     /\ uv.remoteVersion # "")
    => /\ ret.err = "" /\ ret.val = ""
       /\ calls.install = 0 /\ calls.remove = 0

\* the not-found errors Load can return for a condition string
NotFoundErrors == {"no version match: " \o condition : condition \in Requests \cup Names}

\* C25: when the path of the entry Load was given, or resolved from a
\* condition string, does not exist, Load returns a "corrupted" error naming
\* the entry's tag, which is none of the not-found errors; a condition string
\* that matches no entry gives the not-found error; a Load without error
\* returns the entry's path unchanged.
C25_CorruptedIsDistinct ==
    (pc = "done" /\ cmd.fn = "Load") =>
        /\ (ret.info # NoInfo /\ ~StatOk(store, ret.info.Path)) =>
               /\ ret.err = "GitBook version " \o ret.info.Tag \o " is corrupted: stat "
                                \o ret.info.Path \o ": no such file or directory"
               /\ ret.err \notin NotFoundErrors
               /\ ret.val = ""
        /\ (cmd.isString /\ ret.info = NoInfo) =>
               /\ ret.err = "no version match: " \o cmd.arg
               /\ Resolve(store, cmd.arg).err = ret.err
        /\ ret.err = "" => ret.info # NoInfo /\ ret.val = ret.info.Path

\* a Load of a condition string whose entry was removed after it was resolved
C25_Witness ==
    /\ pc = "done" /\ cmd.fn = "Load" /\ cmd.isString
    /\ ret.info # NoInfo /\ ~StatOk(store, ret.info.Path)
    /\ ret.err # ""

\* C30: when two processes publish the same version at once, with their
\* steps interleaved in any way, and both Install calls have returned
\* without error, the store entry of the version holds every file of the
\* artifact.
C30_RaceBothSucceedComplete ==
    (\A p \in Procs : pc[p] = "done" /\ ret[p].err = "")
    => store[version] = DirEntry(ArtifactFiles, version)

\* both succeeded, and one began its publish while the other's was under way
C30_Witness ==
    /\ \A p \in Procs : pc[p] = "done" /\ ret[p].err = "" /\ ret[p].val = version
    /\ cmd.overlapped
    /\ store0[version] # NoEntry
====
